---- MODULE Spec2Model ----
(***************************************************************************)
(* State-machine model of the mutag-calib scale-factor scripts:            *)
(*   scripts/export_correctionlib.py   (prog = "export")                   *)
(*   scripts/combine_ak8_sf_jsons.py   (prog = "combine")                  *)
(*   scripts/apply_hhbbww_sf.py        (SpecLoad)                          *)
(*   configs/fatjet_base/custom/scale_factors.py, weights.py (SpecSF)      *)
(* Scale factors are floats in the code; the model uses integers (the      *)
(* arithmetic used is +, -, abs, max and comparisons only).                *)
(***************************************************************************)
EXTENDS Integers, Sequences, FiniteSets, TLC

VARIABLES
    prog,           \* which program runs: "export" | "combine" | "poi" | "load" | "sf"
    pc,             \* position in main()
    exc,            \* exception that ended the run, "none" otherwise
    args,           \* parsed command line of export_correctionlib.main
    yi,             \* index of the era the current loop is at
    values_by_poi,  \* export: values_by_poi[poi][year][tau21] = POIResult
    seen,           \* export: <<the era directory as the last load step read it>>
    indisk,         \* combine: the input files of BASE_DIR
    outfiles,       \* files written so far: path -> CorrectionSet
    fit,            \* poi: floatParsFinal() of the fit handed to _get_poi_result
    poires,         \* poi: outcome of _get_poi_result
    category,       \* poi: category node exported for that outcome
    fs,             \* SpecLoad: the scale-factor files: path -> CorrectionSet
    cache,          \* SpecLoad: lru_cache of _load_corrections: (sf_path, year) -> pair
    loaded,         \* SpecLoad: the pair each (sf_path, year) first delivered
    last,           \* SpecLoad: the call that just returned
    events,         \* SpecSF: the batch, a sequence of events, each a sequence of jets
    result          \* SpecSF: what the call returned

exportVars == <<args, yi, values_by_poi, seen, indisk, outfiles, fit, poires, category>>

loadVars == <<fs, cache, loaded, last>>

sfVars == <<events, result>>

vars == <<prog, pc, exc, exportVars, loadVars, sfVars>>

(***************************************************************************)
(* Bounds of the model                                                     *)
(***************************************************************************)
MaxVal == 2     \* fitted values range over 0..MaxVal
MaxErr == 1     \* fit errors range over -MaxErr..MaxErr
MaxShift == 1   \* the scale factors of the combine inputs are shifted by 0..MaxShift
MaxVer == 2     \* a scale-factor file is rewritten with contents 1..MaxVer
MaxEvents == 2  \* events in a batch
MaxJets == 2    \* jets in an event

(***************************************************************************)
(* Generic helpers: Python None, dicts as functions                        *)
(***************************************************************************)
None == "None"

EmptyMap == [k \in {} |-> None]

Put(f, k, v) == [x \in (DOMAIN f) \cup {k} |-> IF x = k THEN v ELSE f[x]]

\* Optional[float]: Nothing is None, Some(x) a present value
Nothing == <<>>

Some(x) == <<x>>

Abs(x) == IF x < 0 THEN -x ELSE x

Max(a, b) == IF b > a THEN b ELSE a

Range(s) == {s[i] : i \in DOMAIN s}

(***************************************************************************)
(* export_correctionlib.py : POIResult and _get_poi_result                 *)
(***************************************************************************)
POIResult(name, value, err_up, err_down) ==
    [name |-> name, value |-> value, err_up |-> err_up, err_down |-> err_down]

up(res) == res.value + res.err_up

down(res) == res.value - res.err_down

\* A RooRealVar of floatParsFinal(): val = getVal(), errorHi = getErrorHi(),
\* errorLo = getErrorLo(), error = getError() (never negative in RooFit),
\* asymRaises = reading the asymmetric errors raises.
RooRealVar(val, hi, lo, err, raises) ==
    [val |-> val, errorHi |-> hi, errorLo |-> lo, error |-> err, asymRaises |-> raises]

get_poi_result_symmetric_if_any_zero(fit_s, poi) ==
    IF poi \notin DOMAIN fit_s
    THEN [exc |-> "KeyError"]
    ELSE LET p == fit_s[poi]
             err_hi == p.errorHi
             err_lo == Abs(p.errorLo)
         IN  IF p.asymRaises \/ err_hi = 0 \/ err_lo = 0
             THEN [exc |-> "none", res |-> POIResult(poi, p.val, p.error, p.error)]
             ELSE [exc |-> "none", res |-> POIResult(poi, p.val, err_hi, err_lo)]

get_poi_result(fit_s, poi) ==
    IF poi \notin DOMAIN fit_s
    THEN [exc |-> "KeyError"]
    ELSE LET p == fit_s[poi]
             err_hi == p.errorHi
             err_lo == Abs(p.errorLo)
         IN  IF p.asymRaises \/ (err_hi = 0 /\ err_lo = 0)
             THEN [exc |-> "none", res |-> POIResult(poi, p.val, p.error, p.error)]
             ELSE [exc |-> "none", res |-> POIResult(poi, p.val, err_hi, err_lo)]

(***************************************************************************)
(* export_correctionlib.py : building the correction                       *)
(***************************************************************************)
Entry(k, v) == [key |-> k, value |-> v]

systematic_category(res, tau21_unc) ==
    [nodetype |-> "category",
     input    |-> "systematic",
     content  |-> <<Entry("nominal", res.value), Entry("up", up(res)),
                    Entry("down", down(res))>>
                  \o (IF tau21_unc # Nothing
                      THEN <<Entry("tau21Up", res.value + tau21_unc[1]),
                             Entry("tau21Down", res.value - tau21_unc[1])>>
                      ELSE <<>>),
     default  |-> None]

pt_binning(pt_edges, res, tau21_unc) ==
    IF Len(pt_edges) # 2
    THEN [exc |-> "ValueError"]
    ELSE [exc |-> "none",
          node |-> [nodetype |-> "binning",
                    input    |-> "pt",
                    edges    |-> <<pt_edges[1], pt_edges[2]>>,
                    content  |-> <<systematic_category(res, tau21_unc)>>,
                    flow     |-> "clamp"]]

Input(n, t) == [name |-> n, type |-> t]

export_build_correction(name, description, poi_name, nominal, pt_edges, tau21_unc) ==
    LET data == pt_binning(pt_edges, nominal, tau21_unc)
    IN  IF data.exc # "none"
        THEN [exc |-> data.exc]
        ELSE [exc |-> "none",
              corr |-> [name        |-> name,
                        description |-> description \o " | " \o poi_name,
                        version     |-> 1,
                        inputs      |-> <<Input("pt", "real"), Input("systematic", "string")>>,
                        output      |-> Input("sf", "real"),
                        generic_formulas |-> None,
                        data        |-> data.node]]

(***************************************************************************)
(* export_correctionlib.py : the datacards directory as main() reads it    *)
(***************************************************************************)
\* tau21 working-point labels; sorted(tau_dirs) visits them in this order
TauLabels == <<"0p20", "0p30", "0p40">>

PoiNames == {"r", "SF_c", "SF_l"}

\* Value a fit file of index v holds for each parameter of interest
PoiVal(v, poi) == IF poi = "SF_c" THEN MaxVal - v ELSE v

FitPars(v, present) ==
    [p \in present |-> RooRealVar(PoiVal(v, p), 1, -(PoiVal(v, p) % 2), 1, FALSE)]

\* One tau21_<label> directory: number of fitDiagnostics*.root files in it,
\* whether TFile.Open succeeds, whether the file holds fit_s, floatParsFinal
TauDir(nfit, opens, has_fit_s, pars) ==
    [nfit |-> nfit, opens |-> opens, has_fit_s |-> has_fit_s, pars |-> pars]

GoodTau(v) == TauDir(1, TRUE, TRUE, FitPars(v, PoiNames))

\* One era directory: does it exist, how many directories match --pt-pattern,
\* which tau21_* subdirectories the matching directory holds
EraDir(isdir, npt, taus) == [isdir |-> isdir, npt |-> npt, taus |-> taus]

LabelSets == {{"0p20", "0p30"}, {"0p20", "0p30", "0p40"}}

GoodDirs ==
    UNION {{EraDir(TRUE, 1, [l \in ls |-> GoodTau(f[l])]) : f \in [ls -> 0..MaxVal]}
           : ls \in LabelSets}

BaseTaus == [l \in Range(TauLabels) |-> GoodTau(0)]

BadTaus ==
    {TauDir(0, TRUE, TRUE, FitPars(0, PoiNames)),
     TauDir(2, TRUE, TRUE, FitPars(0, PoiNames)),
     TauDir(1, FALSE, TRUE, FitPars(0, PoiNames)),
     TauDir(1, TRUE, FALSE, FitPars(0, PoiNames)),
     TauDir(1, TRUE, TRUE, FitPars(0, {"r", "SF_l"}))}

BadDirs ==
    {EraDir(FALSE, 1, BaseTaus), EraDir(TRUE, 0, BaseTaus), EraDir(TRUE, 2, BaseTaus),
     EraDir(TRUE, 1, EmptyMap)}
    \cup {EraDir(TRUE, 1, [l \in Range(TauLabels) \ {m} |-> GoodTau(0)])
          : m \in Range(TauLabels)}
    \cup {EraDir(TRUE, 1, [BaseTaus EXCEPT ![m] = bad])
          : m \in Range(TauLabels), bad \in BadTaus}

EraDirs == GoodDirs \cup BadDirs

(***************************************************************************)
(* export_correctionlib.py : main(), argument handling                     *)
(***************************************************************************)
PoiArgs == {<<>>, <<"r">>, <<"SF_c", "r">>, <<"r", "SF_l">>}

\* --tau21-alternatives after split(","): tokens, possibly empty
AltArgs == {<<"">>, <<"0p20">>, <<"0p20", "0p40">>}

EraArgs == {<<"2022_preEE">>, <<"2022_preEE", "2022_postEE">>}

ExportArgs ==
    [poi : PoiArgs, tau21_nominal : {"0p30"}, tau21_alternatives : AltArgs,
     eras : EraArgs, output : {"sf_corrections_run3"},
     description : {"HHbbww Run3 scale factors"}]

pois(a) == IF a.poi # <<>> THEN a.poi ELSE <<"r", "SF_c">>

poi_alias == [p \in {"r", "SF_c"} |-> IF p = "r" THEN "SF_bb" ELSE "SF_cc"]

poi_label(poi) == IF poi \in DOMAIN poi_alias THEN poi_alias[poi] ELSE poi

pt_edges == <<300, 20000>>

years(a) == a.eras

IsLabel(t) == t # ""

tau21_alternatives(a) == SelectSeq(a.tau21_alternatives, IsLabel)

required_tau21(a) == <<a.tau21_nominal>> \o tau21_alternatives(a)

(***************************************************************************)
(* export_correctionlib.py : main(), loading loop                          *)
(***************************************************************************)
find_unique_dir(nmatches) ==
    IF nmatches = 0 THEN "FileNotFoundError"
    ELSE IF nmatches > 1 THEN "RuntimeError" ELSE "none"

find_fit_file(tau_dir) ==
    IF tau_dir.nfit = 0 THEN "FileNotFoundError"
    ELSE IF tau_dir.nfit > 1 THEN "RuntimeError" ELSE "none"

load_fit_s(tau_dir) ==
    IF ~tau_dir.opens THEN "RuntimeError"
    ELSE IF ~tau_dir.has_fit_s THEN "KeyError" ELSE "none"

\* values_by_poi.setdefault(poi, {}).setdefault(year, {})[tau21_label] = res
SetVal(vals, poi, year, label, res) ==
    LET by_year  == IF poi \in DOMAIN vals THEN vals[poi] ELSE EmptyMap
        by_label == IF year \in DOMAIN by_year THEN by_year[year] ELSE EmptyMap
    IN  Put(vals, poi, Put(by_year, year, Put(by_label, label, res)))

RECURSIVE load_pois(_, _, _, _, _, _)
load_pois(vals, year, label, fit_s, ps, i) ==
    IF i > Len(ps)
    THEN [exc |-> "none", vals |-> vals]
    ELSE LET r == get_poi_result(fit_s, ps[i])
         IN  IF r.exc # "none"
             THEN [exc |-> r.exc]
             ELSE load_pois(SetVal(vals, ps[i], year, label, r.res),
                            year, label, fit_s, ps, i + 1)

RECURSIVE load_tau_dirs(_, _, _, _, _, _)
load_tau_dirs(vals, year, dir, tau_dirs, ps, i) ==
    IF i > Len(tau_dirs)
    THEN [exc |-> "none", vals |-> vals]
    ELSE LET label   == tau_dirs[i]
             tau_dir == dir.taus[label]
         IN  IF find_fit_file(tau_dir) # "none"
             THEN [exc |-> find_fit_file(tau_dir)]
             ELSE IF load_fit_s(tau_dir) # "none"
             THEN [exc |-> load_fit_s(tau_dir)]
             ELSE LET r == load_pois(vals, year, label, tau_dir.pars, ps, 1)
                  IN  IF r.exc # "none"
                      THEN r
                      ELSE load_tau_dirs(r.vals, year, dir, tau_dirs, ps, i + 1)

InDir(dir) == LET present(l) == l \in DOMAIN dir.taus IN SelectSeq(TauLabels, present)

load_year_no_required_check(vals, year, dir, a) ==
    IF ~dir.isdir THEN [exc |-> "FileNotFoundError"]
    ELSE IF find_unique_dir(dir.npt) # "none" THEN [exc |-> find_unique_dir(dir.npt)]
    ELSE IF Len(InDir(dir)) = 0 THEN [exc |-> "FileNotFoundError"]
    ELSE load_tau_dirs(vals, year, dir, InDir(dir), pois(a), 1)

\* One iteration of "for year in years" (lines 272-310)
load_year(vals, year, dir, a) ==
    IF ~dir.isdir THEN [exc |-> "FileNotFoundError"]
    ELSE IF find_unique_dir(dir.npt) # "none" THEN [exc |-> find_unique_dir(dir.npt)]
    ELSE IF Len(InDir(dir)) = 0 THEN [exc |-> "FileNotFoundError"]
    ELSE LET r       == load_tau_dirs(vals, year, dir, InDir(dir), pois(a), 1)
             found   == Range(InDir(dir))
             missing == {t \in Range(required_tau21(a)) : t \notin found}
         IN  IF r.exc # "none" THEN r
             ELSE IF missing # {} THEN [exc |-> "FileNotFoundError"]
             ELSE r

(***************************************************************************)
(* export_correctionlib.py : main(), writing loop                          *)
(***************************************************************************)
HasVal(vals, poi, year, label) ==
    /\ poi \in DOMAIN vals
    /\ year \in DOMAIN vals[poi]
    /\ label \in DOMAIN vals[poi][year]

\* tau21_unc after the first n alternatives of "for alt in tau21_alternatives"
RECURSIVE tau21_unc_after(_, _, _, _)
tau21_unc_after(by_label, nominal, alts, n) ==
    IF n = 0 THEN 0
    ELSE Max(tau21_unc_after(by_label, nominal, alts, n - 1),
             Abs(by_label[alts[n]].value - nominal.value))

tau21_unc_first_alternative_only(by_label, nominal, alts) ==
    tau21_unc_after(by_label, nominal, alts, 1)

tau21_unc_of(by_label, nominal, alts) ==
    tau21_unc_after(by_label, nominal, alts, Len(alts))

corr_name_without_alias(year, poi) == "HHbbww_" \o year \o "_" \o poi

corr_name(year, poi) == "HHbbww_" \o year \o "_" \o poi_label(poi)

\* per_year_corrections after the pois from index i on were appended to acc
RECURSIVE year_corrections(_, _, _, _, _)
year_corrections(vals, year, a, i, acc) ==
    IF i > Len(pois(a))
    THEN [exc |-> "none", corrs |-> acc]
    ELSE LET poi == pois(a)[i]
             needed == <<a.tau21_nominal>> \o tau21_alternatives(a)
         IN  IF \E l \in Range(needed) : ~HasVal(vals, poi, year, l)
             THEN [exc |-> "KeyError"]
             ELSE LET nominal == vals[poi][year][a.tau21_nominal]
                      unc == tau21_unc_of(vals[poi][year], nominal, tau21_alternatives(a))
                      c == export_build_correction(
                               corr_name(year, poi), a.description \o " | " \o year,
                               poi, nominal, pt_edges, Some(unc))
                  IN  IF c.exc # "none"
                      THEN [exc |-> c.exc]
                      ELSE year_corrections(vals, year, a, i + 1, Append(acc, c.corr))

out_path(a, year) == "./" \o a.output \o "_" \o year \o ".json"

CorrectionSet(description, corrections) ==
    [schema_version |-> 2, description |-> description,
     corrections |-> corrections, compound_corrections |-> None]

(***************************************************************************)
(* export_correctionlib.py : main() as a state machine                     *)
(***************************************************************************)
LoadIdle == fs = EmptyMap /\ cache = EmptyMap /\ loaded = EmptyMap /\ last = <<>>

SFIdle == events = <<>> /\ result = None

InitExport ==
    /\ prog = "export" /\ pc = "start" /\ exc = "none"
    /\ args \in ExportArgs
    /\ yi = 1 /\ values_by_poi = EmptyMap /\ seen = <<>>
    /\ indisk = None /\ outfiles = EmptyMap
    /\ fit = None /\ poires = None /\ category = None
    /\ LoadIdle /\ SFIdle

Raise(e) ==
    /\ pc' = "raised"
    /\ exc' = e

\* lines 245-270: argument handling before the loading loop
ExportStart ==
    /\ prog = "export" /\ pc = "start"
    /\ IF Len(tau21_alternatives(args)) = 0
       THEN /\ Raise("SystemExit")
            /\ UNCHANGED values_by_poi
       ELSE /\ pc' = "load"
            /\ values_by_poi' = [p \in Range(pois(args)) |-> EmptyMap]
            /\ UNCHANGED exc
    /\ UNCHANGED <<prog, args, yi, seen, indisk, outfiles, fit, poires, category, loadVars, sfVars>>

\* lines 272-310: one iteration of the loading loop; the era directory is
\* whatever the file system holds when it is read.  An exception unwinds
\* main(), whose locals are lost.
LoadYear ==
    /\ prog = "export" /\ pc = "load"
    /\ \E dir \in EraDirs :
         LET r == load_year(values_by_poi, years(args)[yi], dir, args)
         IN  /\ seen' = <<dir>>
             /\ IF r.exc # "none"
                THEN /\ Raise(r.exc)
                     /\ values_by_poi' = EmptyMap
                     /\ UNCHANGED yi
                ELSE /\ values_by_poi' = r.vals
                     /\ yi' = IF yi = Len(years(args)) THEN 1 ELSE yi + 1
                     /\ pc' = IF yi = Len(years(args)) THEN "write" ELSE "load"
                     /\ UNCHANGED exc
    /\ UNCHANGED <<prog, args, indisk, outfiles, fit, poires, category, loadVars, sfVars>>

\* lines 333-363: one iteration of the writing loop
WriteYear ==
    /\ prog = "export" /\ pc = "write"
    /\ LET year == years(args)[yi]
           r == year_corrections(values_by_poi, year, args, 1, <<>>)
       IN  IF r.exc # "none"
           THEN /\ Raise(r.exc)
                /\ UNCHANGED <<yi, outfiles>>
           ELSE /\ outfiles' = Put(outfiles, out_path(args, year),
                                   CorrectionSet(args.description \o " | " \o year, r.corrs))
                /\ yi' = yi + 1
                /\ pc' = IF yi = Len(years(args)) THEN "done" ELSE "write"
                /\ UNCHANGED exc
    /\ UNCHANGED <<prog, args, values_by_poi, seen, indisk, fit, poires, category, loadVars, sfVars>>

(***************************************************************************)
(* export_correctionlib.py : _get_poi_result and _systematic_category on   *)
(* one fitted parameter (prog = "poi")                                     *)
(***************************************************************************)
ErrRange == (0 - MaxErr)..MaxErr

FitInputs ==
    {EmptyMap} \cup
    {[p \in {"r"} |-> RooRealVar(v, hi, lo, e, rs)] :
        v \in 0..MaxVal, hi \in ErrRange, lo \in ErrRange, e \in 0..MaxErr,
        rs \in BOOLEAN}

InitPoi ==
    /\ prog = "poi" /\ pc = "start" /\ exc = "none"
    /\ fit \in FitInputs
    /\ poires = None /\ category = None
    /\ args = None /\ yi = 1 /\ values_by_poi = EmptyMap /\ seen = <<>>
    /\ indisk = None /\ outfiles = EmptyMap
    /\ LoadIdle /\ SFIdle

\* lines 84-100
GetPoi ==
    /\ prog = "poi" /\ pc = "start"
    /\ poires' = get_poi_result(fit, "r")
    /\ IF poires'.exc # "none"
       THEN Raise(poires'.exc)
       ELSE pc' = "got" /\ UNCHANGED exc
    /\ UNCHANGED <<prog, args, yi, values_by_poi, seen, indisk, outfiles, fit, category, loadVars, sfVars>>

\* lines 103-124, with the tau21 uncertainty main() hands in
ExportCategory ==
    /\ prog = "poi" /\ pc = "got"
    /\ \E unc \in 0..MaxErr : category' = systematic_category(poires.res, Some(unc))
    /\ pc' = "done"
    /\ UNCHANGED <<prog, exc, args, yi, values_by_poi, seen, indisk, outfiles, fit, poires, loadVars, sfVars>>

(***************************************************************************)
(* combine_ak8_sf_jsons.py                                                 *)
(***************************************************************************)
PtBin(tag, lo, hi) == [tag |-> tag, lo |-> lo, hi |-> hi]

PT_BINS == <<PtBin("300to350", 300, 350), PtBin("350to425", 350, 425),
             PtBin("425toInf", 425, 20000)>>

ERAS == <<"2022_preEE", "2022_postEE", "2023_preBPix", "2023_postBPix">>

SYSTEMATICS == <<"nominal", "up", "down", "tau21Up", "tau21Down", "msdUp", "msdDown">>

in_path(pt_tag, era) == "ak8_sf_jsons/ak8_sf_msdtest_Pt-" \o pt_tag \o "__" \o era \o ".json"

combined_path(era) == "ak8_sf_jsons/ak8_sf_msdtest_Pt-combined_" \o era \o ".json"

EndsWith(str, suffix) ==
    /\ Len(str) >= Len(suffix)
    /\ SubSeq(str, Len(str) - Len(suffix) + 1, Len(str)) = suffix

\* {entry["key"]: entry["value"] for entry in syst_entries}: a later key wins
RECURSIVE syst_dict(_, _)
syst_dict(entries, n) ==
    IF n = 0 THEN EmptyMap
    ELSE Put(syst_dict(entries, n - 1), entries[n].key, entries[n].value)

\* values[name] = ... on an insertion-ordered dict, kept as a sequence of
\* [name, systs]: a repeated name keeps its place and takes the new value
DictSet(items, name, systs) ==
    IF \E j \in DOMAIN items : items[j].name = name
    THEN [j \in DOMAIN items |->
            IF items[j].name = name THEN [name |-> name, systs |-> systs] ELSE items[j]]
    ELSE Append(items, [name |-> name, systs |-> systs])

RECURSIVE load_values_from(_, _, _)
load_values_from(corrections, i, values) ==
    IF i > Len(corrections)
    THEN [exc |-> "none", values |-> values]
    ELSE LET corr == corrections[i]
         IN  IF Len(corr.data.content) = 0
             THEN [exc |-> "IndexError"]
             ELSE load_values_from(
                      corrections, i + 1,
                      DictSet(values, corr.name,
                              syst_dict(corr.data.content[1].content,
                                        Len(corr.data.content[1].content))))

\* lines 35-45; a document without "corrections" reads as an empty list
load_values(disk, pt_tag, era) ==
    IF in_path(pt_tag, era) \notin DOMAIN disk
    THEN [exc |-> "FileNotFoundError"]
    ELSE LET data == disk[in_path(pt_tag, era)]
         IN  load_values_from(
                 IF "corrections" \in DOMAIN data THEN data.corrections ELSE <<>>,
                 1, <<>>)

\* next((v for k, v in vals.items() if k.endswith(suffix)), None)
first_ending_last_match(values, suffix) ==
    LET hits == {j \in DOMAIN values : EndsWith(values[j].name, suffix)}
    IN  IF hits = {} THEN Nothing
        ELSE Some(values[CHOOSE j \in hits : \A k \in hits : j >= k].systs)

first_ending(values, suffix) ==
    LET hits == {j \in DOMAIN values : EndsWith(values[j].name, suffix)}
    IN  IF hits = {} THEN Nothing
        ELSE Some(values[CHOOSE j \in hits : \A k \in hits : j <= k].systs)

edges_without_last ==
    [i \in 1..Len(PT_BINS) |-> PT_BINS[i].lo]

combine_edges ==
    [i \in 1..Len(PT_BINS) |-> PT_BINS[i].lo] \o <<PT_BINS[Len(PT_BINS)].hi>>

combined_correction(name, descr, per_bin_values) ==
    [name        |-> name,
     description |-> descr,
     version     |-> 1,
     inputs      |-> <<Input("pt", "real"), Input("systematic", "string")>>,
     output      |-> Input("sf", "real"),
     generic_formulas |-> None,
     data |-> [nodetype |-> "binning",
               input    |-> "pt",
               edges    |-> combine_edges,
               content  |->
                  [i \in DOMAIN per_bin_values |->
                     [nodetype |-> "category",
                      input    |-> "systematic",
                      content  |->
                         [j \in DOMAIN SYSTEMATICS |->
                            Entry(SYSTEMATICS[j], per_bin_values[i][SYSTEMATICS[j]])],
                      default  |-> None]],
               flow     |-> "clamp"]]

combine_build_correction_missing_as_one(name, descr, per_bin_values) ==
    [exc |-> "none",
     corr |-> combined_correction(
                  name, descr,
                  [i \in DOMAIN per_bin_values |->
                     [k \in Range(SYSTEMATICS) |->
                        IF k \in DOMAIN per_bin_values[i]
                        THEN per_bin_values[i][k] ELSE 1]])]

\* lines 48-82; syst_map[k] raises KeyError for a systematic not in the map
combine_build_correction(name, descr, per_bin_values) ==
    IF \E i \in DOMAIN per_bin_values :
           \E k \in Range(SYSTEMATICS) : k \notin DOMAIN per_bin_values[i]
    THEN [exc |-> "KeyError"]
    ELSE [exc |-> "none", corr |-> combined_correction(name, descr, per_bin_values)]

\* lines 90-98: per_bin_values_bb / _cc after the pT bins from index i on
RECURSIVE collect_bins(_, _, _, _, _)
collect_bins(disk, era, i, bb, cc) ==
    IF i > Len(PT_BINS)
    THEN [exc |-> "none", bb |-> bb, cc |-> cc]
    ELSE LET vals == load_values(disk, PT_BINS[i].tag, era)
         IN  IF vals.exc # "none"
             THEN [exc |-> vals.exc]
             ELSE LET corr_bb == first_ending(vals.values, "_SF_bb")
                      corr_cc == first_ending(vals.values, "_SF_cc")
                  IN  IF corr_bb = Nothing \/ corr_cc = Nothing
                      THEN [exc |-> "RuntimeError"]
                      ELSE collect_bins(disk, era, i + 1,
                                        Append(bb, corr_bb[1]), Append(cc, corr_cc[1]))

\* lines 85-121: the outcome of combine_era, the file it writes if any
combine_era(disk, era) ==
    LET bins == collect_bins(disk, era, 1, <<>>, <<>>)
    IN  IF bins.exc # "none"
        THEN [exc |-> bins.exc]
        ELSE LET corr_bb_out == combine_build_correction(
                                    "HHbbww_" \o era \o "_SF_bb",
                                    "HHbbww Run3 scale factors | combined pT bins | "
                                        \o era \o " | r",
                                    bins.bb)
                 corr_cc_out == combine_build_correction(
                                    "HHbbww_" \o era \o "_SF_cc",
                                    "HHbbww Run3 scale factors | combined pT bins | "
                                        \o era \o " | SF_c",
                                    bins.cc)
             IN  IF corr_bb_out.exc # "none" THEN [exc |-> corr_bb_out.exc]
                 ELSE IF corr_cc_out.exc # "none" THEN [exc |-> corr_cc_out.exc]
                 ELSE [exc |-> "none",
                       path |-> combined_path(era),
                       output |-> CorrectionSet(
                                      "HHbbww Run3 scale factors combined pT bins "
                                          \o "(300-350, 350-425, 425-Inf) for " \o era,
                                      <<corr_bb_out.corr, corr_cc_out.corr>>)]

(***************************************************************************)
(* combine_ak8_sf_jsons.py : the input files under BASE_DIR                *)
(***************************************************************************)
\* A location is <<era index, pT-bin index>>
Locs == (DOMAIN ERAS) \X (DOMAIN PT_BINS)

PathOf(loc) == in_path(PT_BINS[loc[2]].tag, ERAS[loc[1]])

\* Every (era, bin, flavour, systematic) holds a value of its own
SfVal(shift, loc, flavour, j) == shift + 1000 * loc[1] + 100 * loc[2] + 10 * flavour + j

InCategory(shift, loc, flavour, keys) ==
    [nodetype |-> "category", input |-> "systematic",
     content  |-> [j \in DOMAIN keys |-> Entry(keys[j], SfVal(shift, loc, flavour, j))],
     default  |-> None]

InCorr(name, categories) == [name |-> name, data |-> [content |-> categories]]

BBName(loc) == "HHbbww_" \o ERAS[loc[1]] \o "_SF_bb"

CCName(loc) == "HHbbww_" \o ERAS[loc[1]] \o "_SF_cc"

PlainBB(shift, loc) == InCorr(BBName(loc), <<InCategory(shift, loc, 1, SYSTEMATICS)>>)

PlainCC(shift, loc) == InCorr(CCName(loc), <<InCategory(shift, loc, 2, SYSTEMATICS)>>)

Doc(corrections) == [schema_version |-> 2, corrections |-> corrections]

PlainDoc(shift, loc) == Doc(<<PlainBB(shift, loc), PlainCC(shift, loc)>>)

\* cc before bb, an unrelated correction, a further key, a second pT bin,
\* and a second correction whose name also ends in _SF_bb
RichDoc(shift, loc) ==
    Doc(<<InCorr("pt_corr", <<InCategory(shift, loc, 3, SYSTEMATICS)>>),
          InCorr(CCName(loc), <<InCategory(shift, loc, 2, Append(SYSTEMATICS, "extra")),
                                InCategory(shift, loc, 4, SYSTEMATICS)>>),
          InCorr(BBName(loc), <<InCategory(shift, loc, 1, SYSTEMATICS),
                                InCategory(shift, loc, 5, SYSTEMATICS)>>),
          InCorr("legacy_SF_bb", <<InCategory(shift, loc, 6, SYSTEMATICS)>>)>>)

DefectKinds == {"missing_file", "no_corrections_key", "no_bb", "no_cc",
                "bb_without_msd", "cc_without_msd", "empty_content"}

ExportedKeys == SubSeq(SYSTEMATICS, 1, 5)

DefectDoc(shift, loc, kind) ==
    CASE kind = "no_corrections_key" -> [schema_version |-> 2]
      [] kind = "no_bb" -> Doc(<<PlainCC(shift, loc)>>)
      [] kind = "no_cc" -> Doc(<<PlainBB(shift, loc)>>)
      [] kind = "bb_without_msd" ->
            Doc(<<InCorr(BBName(loc), <<InCategory(shift, loc, 1, ExportedKeys)>>),
                  PlainCC(shift, loc)>>)
      [] kind = "cc_without_msd" ->
            Doc(<<PlainBB(shift, loc),
                  InCorr(CCName(loc), <<InCategory(shift, loc, 2, ExportedKeys)>>)>>)
      [] kind = "empty_content" ->
            Doc(<<PlainBB(shift, loc), PlainCC(shift, loc), InCorr("pt_corr", <<>>)>>)

NoLoc == <<0, 0>>

InDisk(shift, rich, bad, kind) ==
    LET locs == IF kind = "missing_file" THEN Locs \ {bad} ELSE Locs
        LocOf(path) == CHOOSE l \in locs : PathOf(l) = path
    IN  [path \in {PathOf(l) : l \in locs} |->
            IF LocOf(path) = bad THEN DefectDoc(shift, bad, kind)
            ELSE IF LocOf(path) = rich THEN RichDoc(shift, rich)
            ELSE PlainDoc(shift, LocOf(path))]

InDisks ==
    {InDisk(sh, rich, NoLoc, "none") : sh \in 0..MaxShift, rich \in Locs \cup {NoLoc}}
    \cup {InDisk(sh, rich, bad, kind) :
            sh \in 0..MaxShift, rich \in Locs \cup {NoLoc}, bad \in Locs, kind \in DefectKinds}

(***************************************************************************)
(* combine_ak8_sf_jsons.py : main() as a state machine                     *)
(***************************************************************************)
InitCombine ==
    /\ prog = "combine" /\ pc = "combine" /\ exc = "none"
    /\ indisk \in InDisks
    /\ yi = 1 /\ outfiles = EmptyMap
    /\ args = None /\ values_by_poi = EmptyMap /\ seen = <<>>
    /\ fit = None /\ poires = None /\ category = None
    /\ LoadIdle /\ SFIdle

\* lines 124-126: one iteration of "for era in ERAS: combine_era(era)"
CombineEra ==
    /\ prog = "combine" /\ pc = "combine"
    /\ LET r == combine_era(indisk, ERAS[yi])
       IN  IF r.exc # "none"
           THEN /\ Raise(r.exc)
                /\ UNCHANGED <<yi, outfiles>>
           ELSE /\ outfiles' = Put(outfiles, r.path, r.output)
                /\ yi' = yi + 1
                /\ pc' = IF yi = Len(ERAS) THEN "done" ELSE "combine"
                /\ UNCHANGED exc
    /\ UNCHANGED <<prog, args, values_by_poi, seen, indisk, fit, poires, category, loadVars, sfVars>>

(***************************************************************************)
(* The exporters' specification                                            *)
(***************************************************************************)
Init == InitExport \/ InitPoi \/ InitCombine

Next == ExportStart \/ LoadYear \/ WriteYear \/ GetPoi \/ ExportCategory \/ CombineEra

Spec == Init /\ [][Next]_vars

(***************************************************************************)
(* apply_hhbbww_sf.py : the body of _load_corrections, on a file system    *)
(* that maps each existing path to the CorrectionSet stored in it          *)
(***************************************************************************)
CorrNames(cset) == {cset.corrections[i].name : i \in DOMAIN cset.corrections}

CorrNamed(cset, name) ==
    cset.corrections[CHOOSE i \in DOMAIN cset.corrections : cset.corrections[i].name = name]

load_corrections(disk, sf_path, year) ==
    IF sf_path \notin DOMAIN disk
    THEN [exc |-> "FileNotFoundError"]
    ELSE LET cset    == disk[sf_path]
             bb_name == "HHbbww_" \o year \o "_SF_bb"
             cc_name == "HHbbww_" \o year \o "_SF_cc"
         IN  IF bb_name \notin CorrNames(cset) \/ cc_name \notin CorrNames(cset)
             THEN [exc |-> "KeyError"]
             ELSE [exc |-> "none",
                   pair |-> <<CorrNamed(cset, bb_name), CorrNamed(cset, cc_name)>>]

(***************************************************************************)
(* Properties of export_correctionlib.main                                 *)
(***************************************************************************)
Keys(cat) == [j \in DOMAIN cat.content |-> cat.content[j].key]

ValueOf(cat, key) ==
    cat.content[CHOOSE j \in DOMAIN cat.content : cat.content[j].key = key].value

ExportedFiveKeys == <<"nominal", "up", "down", "tau21Up", "tau21Down">>

\* The file written for `year` holds exactly the bb and the cc correction of
\* that era, each with the five systematic keys, and _load_corrections on it
\* returns the pair
TwoCorrectionsFor(year) ==
    LET cset == outfiles[out_path(args, year)]
    IN  /\ Len(cset.corrections) = 2
        /\ CorrNames(cset) = {"HHbbww_" \o year \o "_SF_bb", "HHbbww_" \o year \o "_SF_cc"}
        /\ \A i \in DOMAIN cset.corrections :
               Keys(cset.corrections[i].data.content[1]) = ExportedFiveKeys
        /\ load_corrections(outfiles, out_path(args, year), year).exc = "none"

\* C1 as stated: every per-era file the exporter writes contains exactly the
\* two corrections HHbbww_<era>_SF_bb and HHbbww_<era>_SF_cc, each offering
\* nominal, up, down, tau21Up, tau21Down, so _load_corrections never raises
C1_EveryFileHasBothCorrections ==
    prog = "export" =>
        \A year \in Range(years(args)) :
            out_path(args, year) \in DOMAIN outfiles => TwoCorrectionsFor(year)

ExportsBothPois(a) == Len(pois(a)) = 2 /\ Range(pois(a)) = {"r", "SF_c"}

\* C1 amended: when --poi is omitted, or names r and SF_c once each, every
\* per-era file written contains exactly the two corrections
\* HHbbww_<era>_SF_bb and HHbbww_<era>_SF_cc, each offering nominal, up,
\* down, tau21Up, tau21Down, and _load_corrections(file, era) returns both
C1_DefaultPoisGiveBothCorrections ==
    (prog = "export" /\ ExportsBothPois(args)) =>
        \A year \in Range(years(args)) :
            out_path(args, year) \in DOMAIN outfiles => TwoCorrectionsFor(year)

C1_Witness ==
    /\ prog = "export" /\ pc = "done"
    /\ args.poi = <<"SF_c", "r">>
    /\ Len(years(args)) = 2
    /\ \A year \in Range(years(args)) : out_path(args, year) \in DOMAIN outfiles

StrictlyIncreasing(edges) ==
    \A i \in 1..(Len(edges) - 1) : edges[i] < edges[i + 1]

WellFormedCorrection(corr) ==
    /\ corr.version = 1
    /\ [i \in DOMAIN corr.inputs |-> corr.inputs[i].name] = <<"pt", "systematic">>
    /\ corr.data.nodetype = "binning"
    /\ corr.data.input = "pt"
    /\ corr.data.flow = "clamp"
    /\ StrictlyIncreasing(corr.data.edges)
    /\ Len(corr.data.content) = Len(corr.data.edges) - 1
    /\ \A i \in DOMAIN corr.data.content :
          /\ corr.data.content[i].nodetype = "category"
          /\ corr.data.content[i].input = "systematic"
          /\ corr.data.content[i].default = None

\* C2: every correction in every file written by either exporter has
\* version 1, inputs (pt, systematic), a clamped pt binning with strictly
\* increasing edges and len(edges)-1 category nodes over systematic without
\* default; the file has schema_version 2
C2_CorrectionsWellFormed ==
    \A path \in DOMAIN outfiles :
        /\ outfiles[path].schema_version = 2
        /\ \A i \in DOMAIN outfiles[path].corrections :
               WellFormedCorrection(outfiles[path].corrections[i])

C2_Witness ==
    /\ prog = "combine" /\ pc = "done"
    /\ \A e \in DOMAIN ERAS :
          /\ combined_path(ERAS[e]) \in DOMAIN outfiles
          /\ Len(outfiles[combined_path(ERAS[e])].corrections[1].data.content) = 3

\* max(|SF_alt - SF_nom|) over the listed alternatives, as a set maximum
ListedSpread(by_label, a) ==
    LET diffs == {Abs(by_label[alt].value - by_label[a.tau21_nominal].value)
                  : alt \in Range(tau21_alternatives(a))}
    IN  CHOOSE m \in diffs : \A d \in diffs : d <= m

Tau21ValuesRight(year, i) ==
    LET cat      == outfiles[out_path(args, year)].corrections[i].data.content[1]
        by_label == values_by_poi[pois(args)[i]][year]
        nominal  == by_label[args.tau21_nominal].value
        unc      == ListedSpread(by_label, args)
    IN  /\ unc >= 0
        /\ ValueOf(cat, "nominal") = nominal
        /\ ValueOf(cat, "tau21Up") = nominal + unc
        /\ ValueOf(cat, "tau21Down") = nominal - unc
        /\ ValueOf(cat, "tau21Down") <= nominal
        /\ nominal <= ValueOf(cat, "tau21Up")

\* C3: for every era and POI exported, the tau21 uncertainty is the maximum
\* of |SF_alt - SF_nom| over exactly the labels of --tau21-alternatives, is
\* >= 0, and tau21Up = nominal + unc, tau21Down = nominal - unc, hence
\* tau21Down <= nominal <= tau21Up
C3_Tau21FromListedAlternatives ==
    prog = "export" =>
        \A year \in Range(years(args)) :
            out_path(args, year) \in DOMAIN outfiles =>
                \A i \in DOMAIN pois(args) : Tau21ValuesRight(year, i)

\* a tau21 folder on disk that is not listed lies further from the nominal
\* than the listed one, and the second of two listed alternatives decides
C3_Witness ==
    /\ prog = "export" /\ pc = "done"
    /\ \E year \in Range(years(args)) :
          LET by_label == values_by_poi["r"][year]
          IN  /\ tau21_alternatives(args) = <<"0p20">>
              /\ "0p40" \in DOMAIN by_label
              /\ Abs(by_label["0p40"].value - by_label["0p30"].value)
                   > Abs(by_label["0p20"].value - by_label["0p30"].value)

\* What the claim lists as a failed load of an era directory
LoadFails(dir, a) ==
    \/ ~dir.isdir
    \/ dir.npt # 1
    \/ DOMAIN dir.taus = {}
    \/ \E l \in DOMAIN dir.taus :
          \/ dir.taus[l].nfit # 1
          \/ ~dir.taus[l].opens
          \/ ~dir.taus[l].has_fit_s
          \/ \E p \in Range(pois(a)) : p \notin DOMAIN dir.taus[l].pars
    \/ \E t \in Range(required_tau21(a)) : t \notin DOMAIN dir.taus

AllErasLoaded ==
    \A p \in Range(pois(args)) : \A year \in Range(years(args)) :
        HasVal(values_by_poi, p, year, args.tau21_nominal)

\* C4: a failed load of any era raises, and when it does no output file has
\* been written for any era; a file is written only once every era is loaded
C4_NoWriteBeforeAllLoaded ==
    prog = "export" =>
        /\ \A i \in DOMAIN seen :
               LoadFails(seen[i], args) =>
                   (pc = "raised" /\ exc # "none" /\ outfiles = EmptyMap)
        /\ pc = "raised" => outfiles = EmptyMap
        /\ outfiles # EmptyMap => (pc \in {"write", "done"} /\ AllErasLoaded)

\* the first era was loaded, the second one lacks a required tau21 folder
C4_Witness ==
    /\ prog = "export" /\ pc = "raised" /\ yi = 2
    /\ seen[1].isdir /\ seen[1].npt = 1
    /\ \A l \in DOMAIN seen[1].taus : seen[1].taus[l] = GoodTau(0)
    /\ DOMAIN seen[1].taus = {"0p20", "0p30"}
    /\ "0p40" \in Range(required_tau21(args))
    /\ outfiles = EmptyMap

\* C10: _get_poi_result returns the asymmetric errors (high, |low|) whenever
\* they can be read and at least one is non-zero, the symmetric error for
\* both otherwise, raises KeyError for an absent POI; the exported up is
\* value + err_up, down is value - err_down, and down <= nominal
C10_AsymmetricErrorsPreferred ==
    prog = "poi" =>
        /\ (pc # "start" /\ "r" \notin DOMAIN fit) => (pc = "raised" /\ exc = "KeyError")
        /\ (pc # "start" /\ "r" \in DOMAIN fit) =>
              /\ pc # "raised"
              /\ poires.res.value = fit["r"].val
              /\ IF ~fit["r"].asymRaises /\ (fit["r"].errorHi # 0 \/ fit["r"].errorLo # 0)
                 THEN /\ poires.res.err_up = fit["r"].errorHi
                      /\ poires.res.err_down = Abs(fit["r"].errorLo)
                 ELSE /\ poires.res.err_up = fit["r"].error
                      /\ poires.res.err_down = fit["r"].error
        /\ pc = "done" =>
              /\ ValueOf(category, "nominal") = poires.res.value
              /\ ValueOf(category, "up") = poires.res.value + poires.res.err_up
              /\ ValueOf(category, "down") = poires.res.value - poires.res.err_down
              /\ ValueOf(category, "down") <= ValueOf(category, "nominal")

\* exactly one of the asymmetric errors is zero
C10_Witness ==
    /\ prog = "poi" /\ pc = "done"
    /\ ~fit["r"].asymRaises
    /\ fit["r"].errorHi = 0 /\ fit["r"].errorLo < 0
    /\ fit["r"].error # Abs(fit["r"].errorLo)
    /\ poires.res.err_up = 0

(***************************************************************************)
(* Properties of combine_ak8_sf_jsons                                      *)
(***************************************************************************)
\* The first correction of a document, in file order, whose name ends so
FirstNamed(doc, suffix) ==
    LET hits == {j \in DOMAIN doc.corrections : EndsWith(doc.corrections[j].name, suffix)}
    IN  doc.corrections[CHOOSE j \in hits : \A k \in hits : j <= k]

CombinedRight(era, n, suffix) ==
    LET corr == outfiles[combined_path(era)].corrections[n]
    IN  /\ corr.name = "HHbbww_" \o era \o suffix
        /\ corr.data.edges = <<300, 350, 425, 20000>>
        /\ Len(corr.data.content) = 3
        /\ \A i \in 1..3 :
              LET first_bin == FirstNamed(indisk[in_path(PT_BINS[i].tag, era)],
                                          suffix).data.content[1]
              IN  /\ Keys(corr.data.content[i]) = SYSTEMATICS
                  /\ \A k \in Range(SYSTEMATICS) :
                        ValueOf(corr.data.content[i], k) = ValueOf(first_bin, k)

HasAllSystematics(doc, suffix) ==
    \E j \in DOMAIN doc.corrections :
        /\ EndsWith(doc.corrections[j].name, suffix)
        /\ Len(doc.corrections[j].data.content) > 0
        /\ Range(SYSTEMATICS) \subseteq Range(Keys(doc.corrections[j].data.content[1]))

InputsComplete(era) ==
    \A i \in DOMAIN PT_BINS :
        /\ in_path(PT_BINS[i].tag, era) \in DOMAIN indisk
        /\ "corrections" \in DOMAIN indisk[in_path(PT_BINS[i].tag, era)]
        /\ HasAllSystematics(indisk[in_path(PT_BINS[i].tag, era)], "_SF_bb")
        /\ HasAllSystematics(indisk[in_path(PT_BINS[i].tag, era)], "_SF_cc")

\* C9: main combines the eras in the order of ERAS and stops at the first
\* era that fails; an era's output is written only if its three inputs were
\* loaded and each held a *_SF_bb and a *_SF_cc correction with all seven
\* systematics; at a failure exactly the outputs of the earlier eras exist
C9_StopsAtFirstFailingEra ==
    prog = "combine" =>
        /\ DOMAIN outfiles = {combined_path(ERAS[e]) : e \in 1..(yi - 1)}
        /\ \A e \in DOMAIN ERAS :
              combined_path(ERAS[e]) \in DOMAIN outfiles => InputsComplete(ERAS[e])
        /\ pc = "raised" =>
              /\ yi \in DOMAIN ERAS
              /\ exc # "none"
              /\ \A e \in DOMAIN ERAS :
                    combined_path(ERAS[e]) \in DOMAIN outfiles <=> e < yi
        /\ pc = "done" => yi = Len(ERAS) + 1

\* the third era fails on an input without the msd systematics
C9_Witness ==
    /\ prog = "combine" /\ pc = "raised" /\ exc = "KeyError"
    /\ yi = 3
    /\ Cardinality(DOMAIN outfiles) = 2

(***************************************************************************)
(* apply_hhbbww_sf.py : _load_corrections behind functools.lru_cache       *)
(***************************************************************************)
uncached_load_corrections(c, disk, sf_path, year) ==
    LET r == load_corrections(disk, sf_path, year)
    IN  IF r.exc = "none"
        THEN [cache |-> Put(c, <<sf_path, year>>, r.pair), exc |-> "none",
              pair |-> r.pair, read |-> TRUE]
        ELSE [cache |-> c, exc |-> r.exc, pair |-> <<>>, read |-> sf_path \in DOMAIN disk]

\* lines 25-26: lru_cache(maxsize=None) keeps the value of every call that
\* returned, keyed by the arguments; a call that raised is not kept
cached_load_corrections(c, disk, sf_path, year) ==
    IF <<sf_path, year>> \in DOMAIN c
    THEN [cache |-> c, exc |-> "none", pair |-> c[<<sf_path, year>>], read |-> FALSE]
    ELSE LET r == load_corrections(disk, sf_path, year)
         IN  IF r.exc = "none"
             THEN [cache |-> Put(c, <<sf_path, year>>, r.pair), exc |-> "none",
                   pair |-> r.pair, read |-> TRUE]
             ELSE [cache |-> c, exc |-> r.exc, pair |-> <<>>,
                   read |-> sf_path \in DOMAIN disk]

SfYears == {"2022_preEE", "2022_postEE"}

SfPaths == {"sf_corrections_run3_2022_preEE.json", "sf_corrections_run3_2022_postEE.json"}

SfNameLists ==
    {<<"HHbbww_2022_preEE_SF_bb", "HHbbww_2022_preEE_SF_cc">>,
     <<"HHbbww_2022_preEE_SF_bb">>,
     <<"HHbbww_2022_preEE_SF_cc", "HHbbww_2022_postEE_SF_bb", "HHbbww_2022_postEE_SF_cc">>}

\* A scale-factor file: its corrections carry the version of the contents
SfDoc(names, ver) ==
    CorrectionSet("HHbbww Run3 scale factors",
                  [i \in DOMAIN names |-> [name |-> names[i], version |-> ver]])

SfDocs == {SfDoc(names, ver) : names \in SfNameLists, ver \in 1..MaxVer}

InitLoad ==
    /\ prog = "load" /\ pc = "idle" /\ exc = "none"
    /\ fs = EmptyMap /\ cache = EmptyMap /\ loaded = EmptyMap /\ last = <<>>
    /\ args = None /\ yi = 1 /\ values_by_poi = EmptyMap /\ seen = <<>>
    /\ indisk = None /\ outfiles = EmptyMap
    /\ fit = None /\ poires = None /\ category = None
    /\ SFIdle

\* a caller invokes _load_corrections(sf_path, year)
Call ==
    /\ prog = "load" /\ pc = "idle"
    /\ \E sf_path \in SfPaths, year \in SfYears :
         LET r == cached_load_corrections(cache, fs, sf_path, year)
         IN  /\ cache' = r.cache
             /\ exc' = r.exc
             /\ last' = <<[sf_path |-> sf_path, year |-> year, exc |-> r.exc,
                           pair |-> r.pair, read |-> r.read]>>
    /\ pc' = "returned"
    /\ UNCHANGED <<prog, fs, loaded, exportVars, sfVars>>

\* the caller takes the outcome; `loaded` remembers the pair a key delivered first
Return ==
    /\ prog = "load" /\ pc = "returned"
    /\ loaded' = IF last[1].exc = "none" /\ <<last[1].sf_path, last[1].year>> \notin DOMAIN loaded
                 THEN Put(loaded, <<last[1].sf_path, last[1].year>>, last[1].pair)
                 ELSE loaded
    /\ last' = <<>>
    /\ exc' = "none"
    /\ pc' = "idle"
    /\ UNCHANGED <<prog, fs, cache, exportVars, sfVars>>

\* between calls somebody (re)writes a scale-factor file
WriteFile ==
    /\ prog = "load" /\ pc = "idle"
    /\ \E sf_path \in SfPaths, doc \in SfDocs : fs' = Put(fs, sf_path, doc)
    /\ UNCHANGED <<prog, pc, exc, cache, loaded, last, exportVars, sfVars>>

\* between calls somebody removes a scale-factor file
RemoveFile ==
    /\ prog = "load" /\ pc = "idle"
    /\ \E sf_path \in DOMAIN fs : fs' = [q \in (DOMAIN fs) \ {sf_path} |-> fs[q]]
    /\ UNCHANGED <<prog, pc, exc, cache, loaded, last, exportVars, sfVars>>

NextLoad == Call \/ Return \/ WriteFile \/ RemoveFile

SpecLoad == InitLoad /\ [][NextLoad]_vars

FreshOutcomeRight(call) ==
    LET bb_name == "HHbbww_" \o call.year \o "_SF_bb"
        cc_name == "HHbbww_" \o call.year \o "_SF_cc"
    IN  IF call.sf_path \notin DOMAIN fs
        THEN call.exc = "FileNotFoundError" /\ ~call.read
        ELSE IF bb_name \notin CorrNames(fs[call.sf_path])
                  \/ cc_name \notin CorrNames(fs[call.sf_path])
        THEN call.exc = "KeyError"
        ELSE /\ call.exc = "none"
             /\ call.read
             /\ call.pair = <<CorrNamed(fs[call.sf_path], bb_name),
                              CorrNamed(fs[call.sf_path], cc_name)>>

\* C8: _load_corrections raises FileNotFoundError for a missing file and
\* KeyError when the bb or the cc correction of the year is absent; a failed
\* call leaves no cache entry, so the next call loads again; once a call for
\* (sf_path, year) has succeeded every later one returns that same pair
\* without reading the file, whatever has become of the file
C8_LoadCachedOnlyOnSuccess ==
    (prog = "load" /\ pc = "returned") =>
        LET call == last[1]
            key  == <<call.sf_path, call.year>>
        IN  /\ IF key \in DOMAIN loaded
               THEN call.exc = "none" /\ call.pair = loaded[key] /\ ~call.read
               ELSE FreshOutcomeRight(call)
            /\ call.exc # "none" => key \notin DOMAIN cache

\* a call answered from the cache after the file was removed
C8_Witness ==
    /\ prog = "load" /\ pc = "returned"
    /\ <<last[1].sf_path, last[1].year>> \in DOMAIN loaded
    /\ last[1].sf_path \notin DOMAIN fs
    /\ last[1].exc = "none"

(***************************************************************************)
(* The array and correction libraries, as far as scale_factors.py uses     *)
(* them.  A jagged array is a sequence of sequences, a flat one a sequence *)
(***************************************************************************)
RECURSIVE flatten(_)
flatten(jagged) ==
    IF jagged = <<>> THEN <<>> ELSE Head(jagged) \o flatten(Tail(jagged))

num(jagged) == [i \in DOMAIN jagged |-> Len(jagged[i])]

RECURSIVE unflatten(_, _)
unflatten(flat, counts) ==
    IF counts = <<>> THEN <<>>
    ELSE <<SubSeq(flat, 1, Head(counts))>>
         \o unflatten(SubSeq(flat, Head(counts) + 1, Len(flat)), Tail(counts))

Field(evts, name) == [i \in DOMAIN evts |-> [j \in DOMAIN evts[i] |-> evts[i][j][name]]]

\* Correction.evaluate for one jet: binning with flow "clamp", then category
EvaluateOne(corr, pt, systematic) ==
    LET edges == corr.data.edges
        nbins == Len(edges) - 1
        bin   == IF pt < edges[1] THEN 1
                 ELSE IF pt >= edges[Len(edges)] THEN nbins
                 ELSE CHOOSE b \in 1..nbins : edges[b] <= pt /\ pt < edges[b + 1]
    IN  ValueOf(corr.data.content[bin], systematic)

evaluate(corr, pt_flat, systematic) ==
    [i \in DOMAIN pt_flat |-> EvaluateOne(corr, pt_flat[i], systematic)]

\* numpy.sqrt, rounded down to an integer
Sqrt(x) == CHOOSE r \in 0..x : r * r <= x /\ (r + 1) * (r + 1) > x

MaxOf(S) == CHOOSE m \in S : \A x \in S : x <= m

\* ak.where(condition, x, y) with a flat condition and jagged x, y: the
\* arrays are broadcast on the first axis (equal lengths, or length 1
\* repeated), then each element of the condition covers a whole list
where(condition, x, y) ==
    LET n == MaxOf({Len(condition), Len(x), Len(y)})
        at(a, i) == IF Len(a) = n THEN a[i] ELSE a[1]
    IN  IF \E len \in {Len(condition), Len(x), Len(y)} : len # n /\ len # 1
        THEN [exc |-> "ValueError"]
        ELSE IF \E i \in 1..n : Len(at(x, i)) # Len(at(y, i))
        THEN [exc |-> "ValueError"]
        ELSE [exc |-> "none",
              val |-> [i \in 1..n |->
                         [j \in DOMAIN at(x, i) |->
                            IF at(condition, i) THEN at(x, i)[j] ELSE at(y, i)[j]]]]

(***************************************************************************)
(* scale_factors.py : the HHbbww scale factors                             *)
(***************************************************************************)
\* lines 80-88: the pair _hhbbww_load returns for an era whose file loads
hhbbww_load(year) ==
    <<export_build_correction("HHbbww_" \o year \o "_SF_bb", "HHbbww", "r",
                              POIResult("r", 10, 1, 1), pt_edges, Some(1)).corr,
      export_build_correction("HHbbww_" \o year \o "_SF_cc", "HHbbww", "SF_c",
                              POIResult("SF_c", 20, 2, 2), pt_edges, Some(2)).corr>>

Variations == <<"nominal", "totalUp", "totalDown">>

Sq(x) == x * x

\* lines 99-114: sigma, the three variants, unflattened to the jet structure
total_variants(nominal, up_, down_, tau21_up, tau21_down, counts) ==
    LET sigma(i) == Sqrt(Sq(up_[i] - nominal[i]) + Sq(nominal[i] - down_[i])
                         + Sq(tau21_up[i] - nominal[i]) + Sq(nominal[i] - tau21_down[i]))
    IN  [k \in Range(Variations) |->
            unflatten([i \in DOMAIN nominal |->
                         IF k = "nominal" THEN nominal[i]
                         ELSE IF k = "totalUp" THEN nominal[i] + sigma(i)
                         ELSE nominal[i] - sigma(i)],
                      counts)]

\* lines 91-114
hhbbww_per_jet_variations(corr, pt_flat, counts) ==
    total_variants(evaluate(corr, pt_flat, "nominal"), evaluate(corr, pt_flat, "up"),
                   evaluate(corr, pt_flat, "down"), evaluate(corr, pt_flat, "tau21Up"),
                   evaluate(corr, pt_flat, "tau21Down"), counts)

ones_like(jagged) == [i \in DOMAIN jagged |-> [j \in DOMAIN jagged[i] |-> 1]]

then_where(first, mask_cc, v_cc) ==
    IF first.exc # "none" THEN first ELSE where(mask_cc, v_cc, first.val)

\* lines 127-134, one key: ones, then the bb jets, then the cc jets
select_by_mask(mask_bb, mask_cc, v_bb, v_cc) ==
    then_where(where(mask_bb, v_bb, ones_like(v_bb)), mask_cc, v_cc)

collect_variants(selected) ==
    IF \E key \in Range(Variations) : selected[key].exc # "none"
    THEN [exc |-> "ValueError"]
    ELSE [exc |-> "none", variants |-> [key \in Range(Variations) |-> selected[key].val]]

\* lines 126-135: the loop over the three keys
select_variants(mask_bb, mask_cc, bb_vars, cc_vars) ==
    collect_variants([key \in Range(Variations) |->
                        select_by_mask(mask_bb, mask_cc, bb_vars[key], cc_vars[key])])

\* lines 117-135
hhbbww_variations(corr_bb, corr_cc, pt_flat, counts, flavor_flat, nbh_flat, nch_flat) ==
    select_variants(
        [i \in DOMAIN flavor_flat |-> flavor_flat[i] = 5 /\ nbh_flat[i] >= 2],
        [i \in DOMAIN flavor_flat |->
            flavor_flat[i] = 4 /\ nch_flat[i] >= 2 /\ nbh_flat[i] = 0],
        hhbbww_per_jet_variations(corr_bb, pt_flat, counts),
        hhbbww_per_jet_variations(corr_cc, pt_flat, counts))

\* lines 142-150 of sf_hhbbww: the arrays handed to _hhbbww_variations
variations_of(corrs, evts) ==
    hhbbww_variations(corrs[1], corrs[2], flatten(Field(evts, "pt")),
                      num(Field(evts, "pt")),
                      flatten(Field(evts, "hadronFlavour")),
                      flatten(Field(evts, "nBHadrons")),
                      flatten(Field(evts, "nCHadrons")))

\* lines 154-157: leading * subleading, a missing jet counting as 1
leading_times_subleading(per_jet) ==
    [i \in DOMAIN per_jet |->
        (IF Len(per_jet[i]) >= 1 THEN per_jet[i][1] ELSE 1)
        * (IF Len(per_jet[i]) >= 2 THEN per_jet[i][2] ELSE 1)]

\* lines 151-157
pick_systematic(per_jet_variants, systematic) ==
    IF per_jet_variants.exc # "none" THEN [exc |-> per_jet_variants.exc]
    ELSE IF systematic \notin DOMAIN per_jet_variants.variants
    THEN [exc |-> "ValueError"]
    ELSE [exc |-> "none",
          val |-> leading_times_subleading(per_jet_variants.variants[systematic])]

\* lines 137-159
sf_hhbbww(evts, year, systematic) ==
    pick_systematic(variations_of(hhbbww_load(year), evts), systematic)

\* line 137: the parameters sf_hhbbww declares
sf_hhbbww_parameters == <<"events", "year", "systematic">>

\* Python's binding of a call with npos positional and the given keyword
\* arguments to a function declaring `parameters`
Binds(parameters, npos, keywords) ==
    /\ npos <= Len(parameters)
    /\ \A k \in keywords :
          \E i \in DOMAIN parameters : parameters[i] = k /\ i > npos

(***************************************************************************)
(* weights.py : SF_hhbbww_bb / SF_hhbbww_cc                                *)
(***************************************************************************)
\* the one-element list the lambda returns
weight_list(name, r) ==
    IF r.exc # "none" THEN [exc |-> r.exc]
    ELSE [exc |-> "none", val |-> <<<<name, r.val>>>>]

\* lines 34-68: the wrapped lambda; it calls
\* sf_hhbbww(events, metadata['year'], systematic=..., flavor=...)
hhbbww_weight(name, evts, year, variation) ==
    IF ~Binds(sf_hhbbww_parameters, 2, {"systematic", "flavor"})
    THEN [exc |-> "TypeError"]
    ELSE weight_list(name, sf_hhbbww(evts, year, variation))

(***************************************************************************)
(* Evaluating the scale factors on a batch of events                       *)
(***************************************************************************)
Jet(pt, flavour, nbh, nch) ==
    [pt |-> pt, hadronFlavour |-> flavour, nBHadrons |-> nbh, nCHadrons |-> nch]

JetKinds == {Jet(400, 5, 2, 0), Jet(400, 4, 0, 2), Jet(400, 0, 0, 0),
             Jet(400, 5, 1, 0), Jet(400, 4, 1, 2)}

EventKinds == UNION {[1..n -> JetKinds] : n \in 0..MaxJets}

Batches == UNION {[1..n -> EventKinds] : n \in 0..MaxEvents}

InitSF ==
    /\ prog = "sf" /\ pc = "start" /\ exc = "none"
    /\ events \in Batches
    /\ result = None
    /\ args = None /\ yi = 1 /\ values_by_poi = EmptyMap /\ seen = <<>>
    /\ indisk = None /\ outfiles = EmptyMap
    /\ fit = None /\ poires = None /\ category = None
    /\ LoadIdle

Returned(entry, r) ==
    /\ result' = [entry |-> entry, out |-> r]
    /\ exc' = r.exc
    /\ pc' = IF r.exc = "none" THEN "done" ELSE "raised"
    /\ UNCHANGED <<prog, events, exportVars, loadVars>>

\* the framework evaluates one of the two weights on the batch
EvalWeight ==
    /\ prog = "sf" /\ pc = "start"
    /\ \E name \in {"sf_hhbbww_bb", "sf_hhbbww_cc"}, variation \in Range(Variations) :
          Returned(name, hhbbww_weight(name, events, "2022_preEE", variation))

\* sf_hhbbww called with the arguments it declares
EvalSF ==
    /\ prog = "sf" /\ pc = "start"
    /\ \E systematic \in Range(Variations) \cup {"up"} :
          Returned("sf_hhbbww", sf_hhbbww(events, "2022_preEE", systematic))

\* lines 142-150: _hhbbww_variations on the flattened batch
EvalVariations ==
    /\ prog = "sf" /\ pc = "start"
    /\ Returned("_hhbbww_variations", variations_of(hhbbww_load("2022_preEE"), events))

NextSF == EvalWeight \/ EvalSF \/ EvalVariations

SpecSF == InitSF /\ [][NextSF]_vars

IsBB(jet) == jet.hadronFlavour = 5 /\ jet.nBHadrons >= 2

IsCC(jet) == jet.hadronFlavour = 4 /\ jet.nCHadrons >= 2 /\ jet.nBHadrons = 0

\* The value a map gives one jet for a variation
MapValue(corr, jet, key) ==
    hhbbww_per_jet_variations(corr, <<jet.pt>>, <<1>>)[key][1][1]

OwnFlagsValue(jet, key) ==
    IF IsBB(jet) THEN MapValue(hhbbww_load("2022_preEE")[1], jet, key)
    ELSE IF IsCC(jet) THEN MapValue(hhbbww_load("2022_preEE")[2], jet, key)
    ELSE 1

\* C5: what _hhbbww_variations returns has the jet counts of FatJetGood.pt
\* and gives every jet the bb-map value if the jet itself is bb, the cc-map
\* value if the jet itself is cc, and 1 otherwise; no jet is both
C5_PerJetByOwnFlags ==
    (prog = "sf" /\ pc = "done" /\ result.entry = "_hhbbww_variations") =>
        \A key \in Range(Variations) :
            LET v == result.out.variants[key]
            IN  /\ num(v) = num(events)
                /\ \A i \in DOMAIN events : \A j \in DOMAIN events[i] :
                      /\ ~(IsBB(events[i][j]) /\ IsCC(events[i][j]))
                      /\ v[i][j] = OwnFlagsValue(events[i][j], key)

\* C6: evaluating SF_hhbbww_bb or SF_hhbbww_cc on a batch returns the list
\* [(weight name, per-event weights)]; the call of sf_hhbbww never fails on
\* its argument list
C6_WeightCallAccepted ==
    (prog = "sf" /\ pc # "start" /\ result.entry \in {"sf_hhbbww_bb", "sf_hhbbww_cc"}) =>
        /\ exc # "TypeError"
        /\ pc = "done" =>
              /\ Len(result.out.val) = 1
              /\ result.out.val[1][1] = result.entry
              /\ Len(result.out.val[1][2]) = Len(events)

====
